---- MODULE Spec2Model ----
(***************************************************************************)
(* AppState of the ockam desktop application (ockam_app/src/app/           *)
(* app_state.rs): the embedded node's CliState, NodeManagerWorker,         *)
(* ModelState and ModelStateRepository, each behind an async RwLock, and   *)
(* the operations reset, model_mut, model, state and tcp_outlet_list run   *)
(* by concurrent callers.  Every await of the source is a step boundary.  *)
(***************************************************************************)
EXTENDS Integers, FiniteSets, TLC

\* ---------------------------------------------------------------- bounds
NumCallers == 2
NumOutlets == 1
MaxResets == 2
MaxRestarts == 1
NumIds == 2

Procs == 1..NumCallers
Outlets == 1..NumOutlets

\* ------------------------------------------------------------- the state
VARIABLES
    state,                   \* AppState.state: the installed CliState (its generation)
    stateWriter,             \* holder of the write lock of AppState.state, 0 = free
    node_manager,            \* the manager held by the NodeManagerWorker
    managers,                \* every NodeManager created so far
    model_state,             \* AppState.model_state: the declared outlets
    modelWriter,             \* holder of the write lock of model_state, 0 = free
    modelReaders,            \* holders of a read lock of model_state
    model_state_repository,  \* the installed repository handle
    repoReaders,             \* holders of a read lock of model_state_repository
    disk,                    \* identity path -> the ModelState the KV store holds
    pc,                      \* each caller's position
    local,                   \* each caller's locals inside reset
    ret,                     \* what each caller's last call returned
    resets,                  \* number of reset calls started
    hist,                    \* history of the model_mut calls
    phase,                   \* "start" before new(), then "running" or "panicked"
    context,                 \* AppState.context: the NodeContext of the process
    enrolled,                \* the CliState on disk has a default project
    show                     \* the project-show command: its inputs and position

vars == <<state, stateWriter, node_manager, managers, model_state, modelWriter,
          modelReaders, model_state_repository, repoReaders, disk, pc, local,
          ret, resets, hist, phase, context, enrolled, show>>

\* Option<ModelState>: None, or Some(ms)
None == {}
Some(ms) == {ms}

\* ModelState::default(): no outlet declared
DefaultModelState == {}

\* model_state.unwrap_or(ModelState::default())
UnwrapOrDefault(loaded) ==
    IF loaded = None THEN DefaultModelState ELSE CHOOSE ms \in loaded : TRUE

\* identities.identities_repository_path(): the directory of that CliState
IdentityPath(cli) == cli

\* LmdbModelStateRepository::new(path): a handle bound to the path
NewRepository(id, path) == [id |-> id, path |-> path]

\* ModelStateRepository::load
Load(repository) == disk[repository.path]

\* ModelStateRepository::store: the whole state replaces what the path holds
Store(repository, ms) == [disk EXCEPT ![repository.path] = Some(ms)]

\* a faulty factory: the manager is built on a context of its own
NewNodeManagerOwnContext(ctx, cli) ==
    [status |-> "live", cli |-> cli, ctx |-> ctx + 1, outlets |-> {}]

\* NodeManager::create(&ctx, ..): a running manager on the context, bound to
\* the options' CliState
NewNodeManager(ctx, cli) ==
    [status |-> "live", cli |-> cli, ctx |-> ctx, outlets |-> {}]

NoManager == [status |-> "none", cli |-> 0, ctx |-> 0, outlets |-> {}]

\* the project-show command has not been run
NoShow == [pc |-> "none"]

\* a faulty is_enrolled: is_err() for is_ok()
IsEnrolledInverted(hasDefaultProject) == ~hasDefaultProject

\* is_enrolled: self.state().await.projects.default().is_ok()
IsEnrolled(hasDefaultProject) == hasDefaultProject

\* context(): self.context.clone()
Context == context

\* NodeManager::list_outlets().list
ListOutlets(m) == managers[m].outlets

\* a faulty read lock: granted whoever holds the lock
CanReadUnguarded(writer) == TRUE

\* tokio RwLock: a read lock is granted when no writer holds the lock
CanRead(writer) == writer = 0

\* tokio RwLock: the write lock is granted when nobody holds the lock
CanWrite(writer, readers) == writer = 0 /\ readers = {}

NoLocal == [rid |-> 0, state |-> 0, mgr |-> 0, repo |-> 0, added |-> FALSE,
            path |-> 0, ms |-> {}]
NoRet == [op |-> "none", res |-> "none", val |-> {}]
Returned(o, r, v) == [op |-> o, res |-> r, val |-> v]

ResetPcs == {"r_state", "r_cli", "r_make", "r_set", "r_repo", "r_install"}
ModelMutPcs == {"mm_f", "mm_store"}

\* ---------------------------------------------------------------- new()
\* the process starts: nothing of AppState exists yet, the state directory
\* holds what earlier runs left (a persisted ModelState or none, a default
\* project or none)
AppStart(persisted, hasDefaultProject) ==
    /\ state = 0
    /\ stateWriter = 0
    /\ node_manager = 0
    /\ managers = [m \in 0..MaxResets |-> NoManager]
    /\ model_state = DefaultModelState
    /\ model_state_repository = NewRepository(0, IdentityPath(0))
    /\ disk = [p \in 0..MaxResets |-> IF p = 0 THEN persisted ELSE None]
    /\ modelWriter = 0
    /\ modelReaders = {}
    /\ repoReaders = {}
    /\ pc = [p \in Procs |-> "boot"]
    /\ local = [p \in Procs |-> NoLocal]
    /\ ret = [p \in Procs |-> NoRet]
    /\ resets = 0
    /\ hist = [added |-> FALSE, storeFailed |-> FALSE, lastStored |-> None]
    /\ phase = "start"
    /\ context = 0
    /\ enrolled = hasDefaultProject

Init ==
    /\ \E persisted \in {None} \cup {Some(ms) : ms \in SUBSET Outlets},
          hasDefaultProject \in BOOLEAN :
          AppStart(persisted, hasDefaultProject)
    /\ show = NoShow

\* shared_service::tcp::outlet::model_state::load_model_state(..).await;
\* each persisted outlet is created in the manager or its creation fails,
\* and nothing of the outcome is returned: the outlets that can be running
\* afterwards
Replayed(ms) == SUBSET ms

\* AppState::new: the context is built, the manager created, the repository
\* opened on the identity path, the persisted ModelState loaded (or default)
\* and replayed into the manager; a failure of create_node_manager, of
\* create_model_state_repository or of load panics
NewAppState(ok) ==
    /\ phase = "start"
    /\ IF ok
       THEN /\ context' = context + 1
            /\ model_state_repository' = NewRepository(0, IdentityPath(state))
            /\ model_state' = UnwrapOrDefault(Load(model_state_repository'))
            /\ \E running \in Replayed(model_state') :
                  managers' = [managers EXCEPT ![0] =
                      [NewNodeManager(context', state) EXCEPT !.outlets = running]]
            /\ node_manager' = 0
            /\ pc' = [p \in Procs |-> "idle"]
            /\ phase' = "running"
       ELSE /\ phase' = "panicked"
            /\ UNCHANGED <<context, model_state_repository, model_state,
                           managers, node_manager, pc>>
    /\ UNCHANGED <<state, stateWriter, modelWriter, modelReaders, repoReaders,
                   disk, local, ret, resets, hist, enrolled, show>>

\* new(), whatever its outcome
New == \E ok \in BOOLEAN : NewAppState(ok)

\* ---------------------------------------------------------------- reset
\* NodeManagerWorker::stop: the manager the worker holds stops running and
\* stays in the worker
StopNodeManager(m) == [managers EXCEPT ![m].status = "stopped"]

\* CliState::reset: a fresh CliState, with a directory of its own
CliStateReset(rid) == rid

\* a faulty reset: when the stop fails the CliState is reset all the same
\* before the error is returned
ResetStopFailureResetsState(p) ==
    /\ pc[p] = "idle"
    /\ resets < MaxResets
    /\ resets' = resets + 1
    /\ \E ok \in BOOLEAN :
          IF ok
          THEN /\ managers' = [managers EXCEPT ![node_manager].status = "stopped"]
               /\ pc' = [pc EXCEPT ![p] = "r_state"]
               /\ local' = [local EXCEPT ![p] =
                              [rid |-> resets + 1, state |-> state,
                               mgr |-> node_manager,
                               repo |-> model_state_repository.id,
                               added |-> hist.added /\ modelWriter = 0,
                               path |-> 0, ms |-> {}]]
               /\ ret' = [ret EXCEPT ![p] = NoRet]
               /\ UNCHANGED <<state, enrolled>>
          ELSE /\ ret' = [ret EXCEPT ![p] = Returned("reset", "err", {})]
               /\ state' = resets + 1
               /\ enrolled' = FALSE
               /\ UNCHANGED <<managers, pc, local>>
    /\ UNCHANGED <<phase, context, show, stateWriter, node_manager, model_state,
                   modelWriter, modelReaders, model_state_repository,
                   repoReaders, disk, hist>>

\* step 1: self.node_manager.stop(&self.context).await.map_err(..)?
ResetStop(p) ==
    /\ pc[p] = "idle"
    /\ resets < MaxResets
    /\ resets' = resets + 1
    /\ \E ok \in BOOLEAN :
          IF ok
          THEN /\ managers' = StopNodeManager(node_manager)
               /\ pc' = [pc EXCEPT ![p] = "r_state"]
               /\ local' = [local EXCEPT ![p] =
                              [rid |-> resets + 1, state |-> state,
                               mgr |-> node_manager,
                               repo |-> model_state_repository.id,
                               added |-> hist.added /\ modelWriter = 0,
                               path |-> 0, ms |-> {}]]
               /\ ret' = [ret EXCEPT ![p] = NoRet]
          ELSE /\ ret' = [ret EXCEPT ![p] = Returned("reset", "err", {})]
               /\ UNCHANGED <<managers, pc, local>>
    /\ UNCHANGED <<phase, context, enrolled, show, state, stateWriter, node_manager, model_state, modelWriter,
                   modelReaders, model_state_repository, repoReaders, disk, hist>>

\* reset_state: let mut state = self.state.write().await
ResetStateLock(p) ==
    /\ pc[p] = "r_state"
    /\ CanWrite(stateWriter, {})
    /\ stateWriter' = p
    /\ pc' = [pc EXCEPT ![p] = "r_cli"]
    /\ UNCHANGED <<phase, context, enrolled, show, state, node_manager, managers, model_state, modelWriter,
                   modelReaders, model_state_repository, repoReaders, disk,
                   local, ret, resets, hist>>

\* a faulty reset_state: the error of the CliState reset is returned with `?`
ResetCliStatePropagates(p) ==
    /\ pc[p] = "r_cli"
    /\ stateWriter = p
    /\ \E ok \in BOOLEAN :
          IF ok
          THEN /\ state' = local[p].rid
               /\ enrolled' = FALSE
               /\ pc' = [pc EXCEPT ![p] = "r_make"]
               /\ UNCHANGED <<ret, local>>
          ELSE /\ pc' = [pc EXCEPT ![p] = "idle"]
               /\ ret' = [ret EXCEPT ![p] = Returned("reset", "err", {})]
               /\ local' = [local EXCEPT ![p] = NoLocal]
               /\ UNCHANGED <<state, enrolled>>
    /\ stateWriter' = 0
    /\ UNCHANGED <<phase, context, show, node_manager, managers, model_state,
                   modelWriter, modelReaders, model_state_repository,
                   repoReaders, disk, resets, hist>>

\* reset_state: match state.reset().await { Ok(s) => *state = s, Err(e) => error!(..) }; Ok(())
ResetCliState(p) ==
    /\ pc[p] = "r_cli"
    /\ stateWriter = p
    /\ \E ok \in BOOLEAN :
          /\ state' = IF ok THEN CliStateReset(local[p].rid) ELSE state
          /\ enrolled' = IF ok THEN FALSE ELSE enrolled
    /\ stateWriter' = 0
    /\ pc' = [pc EXCEPT ![p] = "r_make"]
    /\ UNCHANGED <<phase, context, show, node_manager, managers, model_state, modelWriter,
                   modelReaders, model_state_repository, repoReaders, disk,
                   local, ret, resets, hist>>

\* step 3: make_node_manager(self.context.clone(), self.options().await).await?
ResetMakeNodeManager(p) ==
    /\ pc[p] = "r_make"
    /\ CanRead(stateWriter)
    /\ \E ok \in BOOLEAN :
          IF ok
          THEN /\ managers' = [managers EXCEPT ![local[p].rid] = NewNodeManager(context, state)]
               /\ pc' = [pc EXCEPT ![p] = "r_set"]
               /\ UNCHANGED <<ret, local>>
          ELSE /\ pc' = [pc EXCEPT ![p] = "idle"]
               /\ ret' = [ret EXCEPT ![p] = Returned("reset", "err", {})]
               /\ local' = [local EXCEPT ![p] = NoLocal]
               /\ UNCHANGED managers
    /\ UNCHANGED <<phase, context, enrolled, show, state, stateWriter, node_manager, model_state, modelWriter,
                   modelReaders, model_state_repository, repoReaders, disk,
                   resets, hist>>

\* NodeManagerWorker::set_node_manager: the inner manager is replaced, the
\* replaced one is dropped
DropNodeManager(old) == [managers EXCEPT ![old].status = "dropped"]

\* step 4: self.node_manager.set_node_manager(node_manager).await
ResetSetNodeManager(p) ==
    /\ pc[p] = "r_set"
    /\ managers' = DropNodeManager(node_manager)
    /\ node_manager' = local[p].rid
    /\ pc' = [pc EXCEPT ![p] = "r_repo"]
    /\ UNCHANGED <<phase, context, enrolled, show, state, stateWriter, model_state, modelWriter, modelReaders,
                   model_state_repository, repoReaders, disk, local, ret,
                   resets, hist>>

\* step 5a: identity_path = self.state().await...; LmdbModelStateRepository::new(identity_path).await?
ResetNewRepository(p) ==
    /\ pc[p] = "r_repo"
    /\ CanRead(stateWriter)
    /\ \E ok \in BOOLEAN :
          IF ok
          THEN /\ local' = [local EXCEPT ![p].path = IdentityPath(state)]
               /\ pc' = [pc EXCEPT ![p] = "r_install"]
               /\ UNCHANGED ret
          ELSE /\ pc' = [pc EXCEPT ![p] = "idle"]
               /\ ret' = [ret EXCEPT ![p] = Returned("reset", "err", {})]
               /\ local' = [local EXCEPT ![p] = NoLocal]
    /\ UNCHANGED <<phase, context, enrolled, show, state, stateWriter, node_manager, managers, model_state,
                   modelWriter, modelReaders, model_state_repository,
                   repoReaders, disk, resets, hist>>

\* step 5b: *self.model_state_repository.write().await = Arc::new(new_state_repository); Ok(())
ResetInstallRepository(p) ==
    /\ pc[p] = "r_install"
    /\ CanWrite(0, repoReaders)
    /\ model_state_repository' = NewRepository(local[p].rid, local[p].path)
    /\ pc' = [pc EXCEPT ![p] = "idle"]
    /\ ret' = [ret EXCEPT ![p] = Returned("reset", "ok", {})]
    /\ local' = [local EXCEPT ![p] = NoLocal]
    /\ UNCHANGED <<phase, context, enrolled, show, state, stateWriter, node_manager, managers, model_state,
                   modelWriter, modelReaders, repoReaders, disk, resets, hist>>

\* ------------------------------------------------------------ model_mut
\* the closures the callers pass: declare an outlet, or withdraw one
AddOutlet(ms, o) == ms \cup {o}
RemoveOutlet(ms, o) == ms \ {o}

\* let mut model_state = self.model_state.write().await
ModelMutLock(p) ==
    /\ pc[p] = "idle"
    /\ CanWrite(modelWriter, modelReaders)
    /\ modelWriter' = p
    /\ pc' = [pc EXCEPT ![p] = "mm_f"]
    /\ ret' = [ret EXCEPT ![p] = NoRet]
    /\ UNCHANGED <<phase, context, enrolled, show, state, stateWriter, node_manager, managers, model_state,
                   modelReaders, model_state_repository, repoReaders, disk,
                   local, resets, hist>>

\* a faulty model_mut: the write guard is dropped once the closure has
\* run, before the store
ModelMutApplyReleasesEarly(p) ==
    /\ pc[p] = "mm_f"
    /\ \E o \in Outlets, add \in BOOLEAN :
          /\ model_state' = IF add THEN model_state \cup {o} ELSE model_state \ {o}
          /\ local' = [local EXCEPT ![p].ms = model_state']
          /\ hist' = [hist EXCEPT !.added = @ \/ (add /\ o \notin model_state)]
    /\ repoReaders' = repoReaders \cup {p}
    /\ modelWriter' = 0
    /\ pc' = [pc EXCEPT ![p] = "mm_store"]
    /\ UNCHANGED <<phase, context, enrolled, show, state, stateWriter, node_manager, managers, modelReaders,
                   model_state_repository, disk, ret, resets>>

\* f(&mut model_state); self.model_state_repository.read().await
ModelMutApply(p) ==
    /\ pc[p] = "mm_f"
    /\ \E o \in Outlets, add \in BOOLEAN :
          /\ model_state' = IF add THEN AddOutlet(model_state, o)
                                   ELSE RemoveOutlet(model_state, o)
          /\ local' = [local EXCEPT ![p].ms = model_state']
          /\ hist' = [hist EXCEPT !.added = @ \/ (add /\ o \notin model_state)]
    /\ repoReaders' = repoReaders \cup {p}
    /\ pc' = [pc EXCEPT ![p] = "mm_store"]
    /\ UNCHANGED <<phase, context, enrolled, show, state, stateWriter, node_manager, managers, modelWriter,
                   modelReaders, model_state_repository, disk, ret, resets>>

\* the result of model_mut once store has answered: .store(&model_state).await?; Ok(())
StoreResult(ok) == IF ok THEN "ok" ELSE "err"

\* a faulty model_mut: a failed store puts the persisted state back in
\* memory
ModelMutStoreReverts(p) ==
    /\ pc[p] = "mm_store"
    /\ \E ok \in BOOLEAN :
          /\ disk' = IF ok THEN [disk EXCEPT ![model_state_repository.path] = {model_state}]
                          ELSE disk
          /\ model_state' = IF ok THEN model_state
                                  ELSE IF disk[model_state_repository.path] = {} THEN {}
                                  ELSE CHOOSE ms \in disk[model_state_repository.path] : TRUE
          /\ ret' = [ret EXCEPT ![p] =
                       [op |-> "model_mut", res |-> IF ok THEN "ok" ELSE "err", val |-> {}]]
          /\ hist' = [hist EXCEPT !.storeFailed = @ \/ ~ok,
                                  !.lastStored = IF ok THEN {model_state} ELSE @]
    /\ repoReaders' = repoReaders \ {p}
    /\ modelWriter' = 0
    /\ local' = [local EXCEPT ![p] = [rid |-> 0, state |-> 0, mgr |-> 0, repo |-> 0,
                                      added |-> FALSE, path |-> 0, ms |-> {}]]
    /\ pc' = [pc EXCEPT ![p] = "idle"]
    /\ UNCHANGED <<phase, context, enrolled, show, state, stateWriter, node_manager, managers,
                   modelReaders, model_state_repository, resets>>

\* .store(&model_state).await?; Ok(())  -- both guards are dropped on return
ModelMutStore(p) ==
    /\ pc[p] = "mm_store"
    /\ \E ok \in BOOLEAN :
          /\ disk' = IF ok THEN Store(model_state_repository, model_state) ELSE disk
          /\ ret' = [ret EXCEPT ![p] = Returned("model_mut", StoreResult(ok), {})]
          /\ hist' = [hist EXCEPT !.storeFailed = @ \/ ~ok,
                                  !.lastStored = IF ok THEN Some(model_state) ELSE @]
    /\ repoReaders' = repoReaders \ {p}
    /\ modelWriter' = 0
    /\ local' = [local EXCEPT ![p] = NoLocal]
    /\ pc' = [pc EXCEPT ![p] = "idle"]
    /\ UNCHANGED <<phase, context, enrolled, show, state, stateWriter, node_manager, managers, model_state,
                   modelReaders, model_state_repository, resets>>

\* ---------------------------------------------------------------- model
\* let mut model_state = self.model_state.read().await
ModelLock(p) ==
    /\ pc[p] = "idle"
    /\ CanRead(modelWriter)
    /\ modelReaders' = modelReaders \cup {p}
    /\ pc' = [pc EXCEPT ![p] = "m_f"]
    /\ ret' = [ret EXCEPT ![p] = NoRet]
    /\ UNCHANGED <<phase, context, enrolled, show, state, stateWriter, node_manager, managers, model_state,
                   modelWriter, model_state_repository, repoReaders, disk,
                   local, resets, hist>>

\* a faulty model: the read guard is kept when the call returns
ModelReadKeepsGuard(p) ==
    /\ pc[p] = "m_f"
    /\ ret' = [ret EXCEPT ![p] = Returned("model", "ok", model_state)]
    /\ pc' = [pc EXCEPT ![p] = "idle"]
    /\ UNCHANGED <<phase, context, enrolled, show, state, stateWriter, node_manager, managers, model_state,
                   modelWriter, modelReaders, model_state_repository, repoReaders, disk,
                   local, resets, hist>>

\* f(&mut model_state): the closure's result is returned, the guard dropped
ModelRead(p) ==
    /\ pc[p] = "m_f"
    /\ ret' = [ret EXCEPT ![p] = Returned("model", "ok", model_state)]
    /\ modelReaders' = modelReaders \ {p}
    /\ pc' = [pc EXCEPT ![p] = "idle"]
    /\ UNCHANGED <<phase, context, enrolled, show, state, stateWriter, node_manager, managers, model_state,
                   modelWriter, model_state_repository, repoReaders, disk,
                   local, resets, hist>>

\* ------------------------------------------------------------ accessors
\* state(): self.state.read().await; state.clone()
GetState(p) ==
    /\ pc[p] = "idle"
    /\ CanRead(stateWriter)
    /\ ret' = [ret EXCEPT ![p] = Returned("state", "ok", {state})]
    /\ UNCHANGED <<phase, context, enrolled, show, state, stateWriter, node_manager, managers, model_state,
                   modelWriter, modelReaders, model_state_repository,
                   repoReaders, disk, pc, local, resets, hist>>

\* options(): CommandGlobalOpts { global_args, state: self.state().await, terminal }
GetOptions(p) ==
    /\ pc[p] = "idle"
    /\ CanRead(stateWriter)
    /\ ret' = [ret EXCEPT ![p] = Returned("options", "ok", {state})]
    /\ UNCHANGED <<state, stateWriter, node_manager, managers, model_state,
                   modelWriter, modelReaders, model_state_repository,
                   repoReaders, disk, pc, local, resets, hist, phase, context,
                   enrolled, show>>

\* is_enrolled(): self.state().await.projects.default().is_ok(); 1 is true
GetIsEnrolled(p) ==
    /\ pc[p] = "idle"
    /\ CanRead(stateWriter)
    /\ ret' = [ret EXCEPT ![p] =
                 Returned("is_enrolled", "ok", IF IsEnrolled(enrolled) THEN {1} ELSE {0})]
    /\ UNCHANGED <<state, stateWriter, node_manager, managers, model_state,
                   modelWriter, modelReaders, model_state_repository,
                   repoReaders, disk, pc, local, resets, hist, phase, context,
                   enrolled, show>>

\* tcp_outlet_list(): self.node_manager.get().read().await; node_manager.list_outlets().list
TcpOutletList(p) ==
    /\ pc[p] = "idle"
    /\ ret' = [ret EXCEPT ![p] = Returned("tcp_outlet_list", "ok", ListOutlets(node_manager))]
    /\ UNCHANGED <<phase, context, enrolled, show, state, stateWriter, node_manager, managers, model_state,
                   modelWriter, modelReaders, model_state_repository,
                   repoReaders, disk, pc, local, resets, hist>>

\* ------------------------------------------------------- specification
\* new(), then what the callers do once it has returned the AppState
Next ==
    \/ New
    \/ \E p \in Procs :
        \/ ResetStop(p)
        \/ ResetStateLock(p)
        \/ ResetCliState(p)
        \/ ResetMakeNodeManager(p)
        \/ ResetSetNodeManager(p)
        \/ ResetNewRepository(p)
        \/ ResetInstallRepository(p)
        \/ ModelMutLock(p)
        \/ ModelMutApply(p)
        \/ ModelMutStore(p)
        \/ ModelLock(p)
        \/ ModelRead(p)
        \/ GetState(p)
        \/ GetOptions(p)
        \/ GetIsEnrolled(p)
        \/ TcpOutletList(p)

Spec == Init /\ [][Next]_vars

\* ------------------------------------------------------------ fairness
\* the steps of a call that wait for no lock: the call underneath (stop,
\* CliState reset, create, store, the closure) returns
Proceed(p) ==
    \/ ResetCliState(p)
    \/ ResetMakeNodeManager(p)
    \/ ResetSetNodeManager(p)
    \/ ModelMutApply(p)
    \/ ModelMutStore(p)
    \/ ModelRead(p)

\* the steps of a call that wait for a lock
Acquire(p) ==
    \/ ResetStateLock(p)
    \/ ResetNewRepository(p)
    \/ ResetInstallRepository(p)

\* the scheduler runs every task that can run; tokio's RwLock queues its
\* waiters first in first out, so a waiter that could be served again and
\* again is served
Fairness == \A p \in Procs : SF_vars(Proceed(p) \/ Acquire(p))

\* the first start of the application, on an empty state directory
InitFair == AppStart(None, FALSE) /\ show = NoShow

\* new(), then the calls that hold a lock from one step to the next:
\* reset, model_mut and model
NextFair ==
    \/ New
    \/ \E p \in Procs :
        \/ ResetStop(p)
        \/ ResetStateLock(p)
        \/ ResetCliState(p)
        \/ ResetMakeNodeManager(p)
        \/ ResetSetNodeManager(p)
        \/ ResetNewRepository(p)
        \/ ResetInstallRepository(p)
        \/ ModelMutLock(p)
        \/ ModelMutApply(p)
        \/ ModelMutStore(p)
        \/ ModelLock(p)
        \/ ModelRead(p)

FairSpec == InitFair /\ [][NextFair]_vars /\ Fairness

\* ------------------------------------------------------------- restart
\* the process exits: everything AppState holds in memory is gone, the state
\* directory stays
Exit ==
    /\ phase = "running"
    /\ context <= MaxRestarts
    /\ phase' = "start"
    /\ managers' = [m \in 0..MaxResets |-> NoManager]
    /\ model_state' = DefaultModelState
    /\ stateWriter' = 0
    /\ modelWriter' = 0
    /\ modelReaders' = {}
    /\ repoReaders' = {}
    /\ pc' = [p \in Procs |-> "boot"]
    /\ local' = [p \in Procs |-> NoLocal]
    /\ ret' = [p \in Procs |-> NoRet]
    /\ UNCHANGED <<state, node_manager, model_state_repository, disk, resets,
                   hist, context, enrolled, show>>

\* the application started, used through model_mut, model and
\* tcp_outlet_list, exited and started again
NextRestart ==
    \/ New
    \/ Exit
    \/ \E p \in Procs :
          \/ ModelMutLock(p)
          \/ ModelMutApply(p)
          \/ ModelMutStore(p)
          \/ ModelLock(p)
          \/ ModelRead(p)
          \/ TcpOutletList(p)

SpecRestart == Init /\ [][NextRestart]_vars

\* ----------------------------------------------------------- properties
\* the step in which reset returns Ok(())
ResetReturnsOk(p) == pc[p] = "r_install" /\ pc'[p] = "idle"

\* no reset call is between its step 1 and its return
NoResetInProgress == \A p \in Procs : pc[p] \notin ResetPcs

\* the managers that are running
LiveManagers == {m \in DOMAIN managers : managers[m].status = "live"}

\* a step of a reset or model_mut call of caller q
MutatorStep(q) ==
    /\ pc'[q] # pc[q]
    /\ \/ pc[q] \in ResetPcs \cup ModelMutPcs
       \/ pc'[q] \in ResetPcs \cup ModelMutPcs

\* C1: when reset returns success the CliState, the manager in the worker
\* and the repository are none of the instances reset found on entry, and
\* the repository is bound to the identity path of the installed CliState.
C1_ResetFreshAndConsistent ==
    [][\A p \in Procs : ResetReturnsOk(p) =>
          /\ state' # local[p].state
          /\ node_manager' # local[p].mgr
          /\ model_state_repository'.id # local[p].repo
          /\ model_state_repository'.path = IdentityPath(state')]_vars

\* C2: once new() has returned, whenever no reset is in progress exactly one
\* manager is live and it is the one the worker holds.
C2_ExactlyOneLiveManager ==
    (phase = "running" /\ NoResetInProgress) => LiveManagers = {node_manager}

\* C3: while a reset of one caller is between step 1 and step 5, no other
\* caller takes a step of a reset or of a model_mut.
C3_ResetNotInterleaved ==
    [][\A p, q \in Procs :
          (p # q /\ pc[p] \in ResetPcs) => ~MutatorStep(q)]_vars

\* C4: while the closure of a model call runs, no model_mut closure has the
\* ModelState under mutation, and two model_mut calls never hold the
\* ModelState at the same time.
C4_ModelIsolation ==
    \A p, q \in Procs :
        p # q =>
          /\ ~(pc[p] = "m_f" /\ pc[q] \in ModelMutPcs)
          /\ ~(pc[p] \in ModelMutPcs /\ pc[q] \in ModelMutPcs)

\* a model call reads while a model_mut of another caller has completed
C4_Witness ==
    \E p, q \in Procs :
        /\ pc[p] = "m_f"
        /\ ret[q].op = "model_mut"
        /\ ret[q].res = "ok"
        /\ hist.added

\* C5: with every store successful and no reset, whenever no model_mut is
\* in progress a load by a fresh repository on the same path returns the
\* in-memory ModelState.
C5_LoadReturnsLastMutation ==
    (/\ modelWriter = 0
     /\ ~hist.storeFailed
     /\ resets = 0
     /\ hist.lastStored # None)
    => Load(NewRepository(MaxResets + 1, model_state_repository.path)) = Some(model_state)

\* every caller has completed a model_mut, the last one left an outlet
C5_Witness ==
    /\ \A p \in Procs : ret[p].op = "model_mut" /\ ret[p].res = "ok"
    /\ ~hist.storeFailed
    /\ resets = 0
    /\ modelWriter = 0
    /\ model_state # DefaultModelState
    /\ hist.lastStored = Some(model_state)

\* C6: whenever no model_mut is in progress, a load on the installed
\* repository returns the state of the last model_mut that completed with
\* success, also after a reset has replaced the repository.
C6_LoadIsLastCompleted ==
    (modelWriter = 0 /\ hist.lastStored # None)
    => Load(model_state_repository) = hist.lastStored

\* C7: when reset returns success, the outlets of the manager in the worker
\* are the outlets declared in the in-memory ModelState.
C7_OutletsMatchModelState ==
    [][\A p \in Procs : ResetReturnsOk(p) =>
          managers'[node_manager'].outlets = model_state']_vars

\* C8: when a model_mut has added an outlet and a reset started afterwards
\* returns success, the ModelState is the default one and no outlet runs.
C8_ResetClearsModelState ==
    [][\A p \in Procs : (ResetReturnsOk(p) /\ local[p].added) =>
          /\ model_state' = DefaultModelState
          /\ managers'[node_manager'].outlets = {}]_vars

\* C9: tcp_outlet_list never completes against a stopped manager.
C9_NoListOnStoppedManager ==
    [][\A p \in Procs : TcpOutletList(p) =>
          managers[node_manager].status # "stopped"]_vars

\* C10: when the store of model_mut fails, the call returns the error, the
\* ModelState keeps what the closure left and is readable again, and the
\* persisted state is unchanged.
C10_StoreFailureKeepsMutation ==
    [][\A p \in Procs :
          (pc[p] = "mm_store" /\ pc'[p] = "idle" /\ ret'[p].res = "err") =>
             /\ ret'[p].op = "model_mut"
             /\ model_state' = local[p].ms
             /\ modelWriter' = 0
             /\ disk' = disk]_vars

\* a model_mut has returned an error and a model call has observed the
\* ModelState it left, which is not the persisted one
C10_Witness ==
    \E p, q \in Procs :
        /\ ret[p].op = "model_mut" /\ ret[p].res = "err"
        /\ ret[q].op = "model" /\ ret[q].val = model_state
        /\ Load(model_state_repository) # Some(model_state)
        /\ resets = 0
        /\ modelWriter = 0

\* -------------------------------------------------------- project show
\* everything but the state of the show command
appVars == <<state, stateWriter, node_manager, managers, model_state,
             modelWriter, modelReaders, model_state_repository, repoReaders,
             disk, pc, local, ret, resets, hist, phase, context, enrolled>>

\* ShowCommand: space_id, project_id, address (a multi-address that
\* multiaddr_to_route can turn into a route, or one it cannot) and
\* identity_opts.overwrite
ShowCommands ==
    [space_id : 1..NumIds, project_id : 1..NumIds,
     address : {"routable", "unroutable"}, overwrite : BOOLEAN]

\* multiaddr_to_route(&cmd.address): Some(route) or None
MultiaddrToRoute(address) == IF address = "routable" THEN Some(address) ELSE None

\* embedded_node(show, command): show is entered with a running context
ShowRun(cmd) ==
    [pc |-> "tcp", ctx |-> "running", printed |-> {}, result |-> "none",
     cmd |-> cmd]

\* `?`: the error is returned to the caller of show
ShowErr(e) == [show EXCEPT !.pc = "done", !.result = e]

\* let _tcp = TcpTransport::create(&ctx).await?
ShowTcpCreate ==
    /\ show.pc = "tcp"
    /\ \E ok \in BOOLEAN :
          show' = IF ok THEN [show EXCEPT !.pc = "identity"]
                        ELSE ShowErr("transport")
    /\ UNCHANGED appVars

\* load_or_create_identity(&ctx, cmd.identity_opts.overwrite).await?
ShowLoadOrCreateIdentity ==
    /\ show.pc = "identity"
    /\ \E ok \in BOOLEAN :
          show' = IF ok THEN [show EXCEPT !.pc = "identifier"]
                        ELSE ShowErr("identity")
    /\ UNCHANGED appVars

\* identity.identifier().await?
ShowIdentifier ==
    /\ show.pc = "identifier"
    /\ \E ok \in BOOLEAN :
          show' = IF ok THEN [show EXCEPT !.pc = "route"]
                        ELSE ShowErr("identifier")
    /\ UNCHANGED appVars

\* multiaddr_to_route(&cmd.address).ok_or_else(|| anyhow!("failed to parse address"))?
\* then MessagingClient::new(route, &ctx).await?
ShowClientNew ==
    /\ show.pc = "route"
    /\ IF MultiaddrToRoute(show.cmd.address) = None
       THEN show' = ShowErr("failed to parse address")
       ELSE \E ok \in BOOLEAN :
               show' = IF ok THEN [show EXCEPT !.pc = "get"]
                             ELSE ShowErr("client")
    /\ UNCHANGED appVars

\* api.get_project(&cmd.space_id, &cmd.project_id, ..).await?; println!("{res:#?}")
ShowGetProject ==
    /\ show.pc = "get"
    /\ \E ok \in BOOLEAN :
          show' = IF ok
                  THEN [show EXCEPT !.pc = "stop",
                          !.printed = {<<show.cmd.space_id, show.cmd.project_id>>}]
                  ELSE ShowErr("get_project")
    /\ UNCHANGED appVars

\* ctx.stop().await?; Ok(())  -- a stop that fails has stopped the context
\* or has not
ShowStop ==
    /\ show.pc = "stop"
    /\ \E ok \in BOOLEAN, stopped \in BOOLEAN :
          show' = IF ok
                  THEN [show EXCEPT !.pc = "done", !.ctx = "stopped", !.result = "ok"]
                  ELSE [ShowErr("stop") EXCEPT
                          !.ctx = IF stopped THEN "stopped" ELSE "running"]
    /\ UNCHANGED appVars

InitShow ==
    /\ AppStart(None, FALSE)
    /\ \E cmd \in ShowCommands : show = ShowRun(cmd)

NextShow ==
    \/ ShowTcpCreate
    \/ ShowLoadOrCreateIdentity
    \/ ShowIdentifier
    \/ ShowClientNew
    \/ ShowGetProject
    \/ ShowStop

SpecShow == InitShow /\ [][NextShow]_vars

\* the step in which new() returns the AppState
NewReturns == phase = "start" /\ phase' = "running"

\* the step in which reset returns the error of node_manager.stop
StopFails(p) ==
    /\ pc[p] = "idle" /\ pc'[p] = "idle"
    /\ resets' = resets + 1
    /\ ret'[p] = Returned("reset", "err", {})

\* C11: when new() returns after a successful store, the ModelState equals
\* the last one stored and the manager runs exactly its outlets.
C11_RestartRoundTrip ==
    [][(NewReturns /\ hist.lastStored # None) =>
          /\ Some(model_state') = hist.lastStored
          /\ managers'[node_manager'].outlets = model_state']_vars

\* C12: new() never returns an AppState whose ModelState holds an outlet
\* that is not running in the node manager.
C12_ReplayFailureAborts ==
    [][NewReturns =>
          model_state' \subseteq managers'[node_manager'].outlets]_vars

\* C13: when new() runs on a state directory with no persisted ModelState
\* and no default project, the ModelState is the default one, the manager
\* has no outlet and is_enrolled is false.
C13_ColdStartIsDefault ==
    [][(NewReturns /\ disk[IdentityPath(state)] = None /\ ~enrolled) =>
          /\ model_state' = DefaultModelState
          /\ managers'[node_manager'].outlets = {}
          /\ ~IsEnrolled(enrolled')]_vars

\* new() has run on an empty state directory and is_enrolled has answered
C13_Witness ==
    /\ phase = "running"
    /\ resets = 0
    /\ disk[IdentityPath(state)] = None
    /\ ~hist.added
    /\ ~enrolled
    /\ model_state = DefaultModelState
    /\ ListOutlets(node_manager) = {}
    /\ \E p \in Procs : ret[p] = Returned("is_enrolled", "ok", {0})

\* C14: when reset returns success, is_enrolled is false.
C14_ResetClearsEnrollment ==
    [][\A p \in Procs : ResetReturnsOk(p) => ~IsEnrolled(enrolled')]_vars

\* C15: show never ends with an error while the context is running, and it
\* has printed only when get_project succeeded.
C15_ShowErrorStopsContext ==
    /\ (show.pc = "done" /\ show.result # "ok") => show.ctx = "stopped"
    /\ show.printed # {} => show.pc \in {"stop", "done"}

\* C16: when the stop of step 1 fails, reset returns the error at once and
\* the CliState, the manager in the worker, the repository handle and the
\* ModelState are what they were.
C16_StopFailureChangesNothing ==
    [][\A p \in Procs : StopFails(p) =>
          /\ state' = state
          /\ enrolled' = enrolled
          /\ node_manager' = node_manager
          /\ model_state_repository' = model_state_repository
          /\ model_state' = model_state
          /\ disk' = disk]_vars

\* a reset has returned the error of the stop: the manager is still running
C16_Witness ==
    \E p \in Procs :
        /\ ret[p] = Returned("reset", "err", {})
        /\ resets = 1
        /\ node_manager = 0
        /\ managers[node_manager].status = "live"

\* C17: step 2 never ends the reset: whether the CliState reset succeeds
\* (the fresh state is installed) or fails (the CliState stays), the write
\* lock is released and reset goes on with step 3.
C17_StateResetFailureContinues ==
    [][\A p \in Procs : (pc[p] = "r_cli" /\ pc'[p] # "r_cli") =>
          /\ pc'[p] = "r_make"
          /\ stateWriter' = 0
          /\ \/ state' = state /\ enrolled' = enrolled
             \/ state' = CliStateReset(local[p].rid) /\ state' # local[p].state]_vars

\* a reset has returned success with the CliState it found: the new manager
\* and the new repository are built against the old CliState
C17_Witness ==
    \E p \in Procs :
        /\ ret[p] = Returned("reset", "ok", {})
        /\ resets = 1
        /\ state = 0
        /\ node_manager = 1
        /\ managers[node_manager].cli = 0
        /\ model_state_repository = NewRepository(1, IdentityPath(0))

\* C18: when building the manager fails, reset returns the error with the
\* worker holding the manager stopped in step 1 and the repository handle
\* found on entry.
C18_MakeFailureKeepsStoppedManager ==
    [][\A p \in Procs : (pc[p] = "r_make" /\ pc'[p] = "idle") =>
          /\ ret'[p] = Returned("reset", "err", {})
          /\ node_manager' = local[p].mgr
          /\ managers'[node_manager'].status = "stopped"
          /\ model_state_repository'.id = local[p].repo]_vars

\* C19: once new() has returned, the context of the AppState never changes
\* and every manager that exists is built on it.
C19_ContextNeverReplaced ==
    [][phase = "running" =>
          /\ context' = Context
          /\ \A m \in DOMAIN managers' :
                managers'[m].status # "none" => managers'[m].ctx = context']_vars

\* a reset has installed a manager of its own, built on the context
C19_Witness ==
    \E p \in Procs :
        /\ ret[p] = Returned("reset", "ok", {})
        /\ node_manager # 0
        /\ managers[node_manager].ctx = Context
        /\ managers[0].status = "dropped"

\* a call of p is under way
InProgress(p) == pc[p] \in ResetPcs \cup ModelMutPcs \cup {"m_f"}

\* p waits for a lock that is held
Blocked(p) ==
    \/ pc[p] = "r_state" /\ ~CanWrite(stateWriter, {})
    \/ pc[p] = "r_repo" /\ ~CanRead(stateWriter)
    \/ pc[p] = "r_install" /\ ~CanWrite(0, repoReaders)

\* a lock is held only by a call under way
HeldByCallUnderWay ==
    /\ stateWriter # 0 => InProgress(stateWriter)
    /\ modelWriter # 0 => InProgress(modelWriter)
    /\ \A p \in modelReaders \cup repoReaders : InProgress(p)

====
